---- MODULE Spec2Model ----
(***************************************************************************)
(* The task board of modal-drift: the TaskManager component (its task      *)
(* collection, filters, derived views, drag handlers and store handlers)  *)
(* and the TaskModal form.                                                 *)
(*                                                                         *)
(* React state lives in the variables.  `tasks` is the state cell behind   *)
(* useState; `rtasks` is the value of `tasks` that the handlers of the     *)
(* last committed render closed over.  A handler reads `rtasks` wherever   *)
(* the code reads the identifier `tasks`, and reads the cell itself only   *)
(* through a functional update setTasks(prev => ...).                      *)
(***************************************************************************)
EXTENDS Integers, Sequences, FiniteSets, TLC

VARIABLES
    tasks,            \* useState<Task[]>: the canonical collection
    rtasks,           \* `tasks` as captured by the last committed render
    activeTask,       \* useState<Task | null>: the active-task marker
    dragId,           \* dnd-kit's active.id while a drag is in progress
    isModalOpen,      \* useState(false)
    editingTask,      \* useState<Task | null>: the task bound to the form
    defaultPriority,  \* useState<Priority>('medium')
    formData,         \* TaskModal: useState<TaskFormData>
    images,           \* TaskModal: useState<string[]>
    pendingReads,     \* FileReader reads started and not yet delivered
    closedReads,      \* those of them started in a form that was closed since
    searchQuery,      \* useState('')
    statusFilter,     \* useState<string>('all')
    dateFilter,       \* useState<Date | undefined>()
    toast,            \* title of the last toast shown
    now,              \* the instant new Date() returns
    nEvents           \* user events handled so far

vars == <<tasks, rtasks, activeTask, dragId, isModalOpen, editingTask,
          defaultPriority, formData, images, pendingReads, closedReads,
          searchQuery, statusFilter, dateFilter, toast, now, nEvents>>

boardVars == <<tasks, rtasks, activeTask, dragId>>
modalVars == <<isModalOpen, editingTask, defaultPriority, formData, images>>
readVars == <<pendingReads, closedReads>>
viewVars == <<searchQuery, statusFilter, dateFilter>>

-----------------------------------------------------------------------------
(* Bounds of the exploration *)

MaxEvents == 4     \* user events per behaviour
MaxFormEvents == 6 \* user events per behaviour of the form alone
MaxViewEvents == 4 \* user events per behaviour of the board under its filters
MaxTicks == 1      \* clock advances per behaviour

-----------------------------------------------------------------------------
(* Types *)

Priorities == <<"urgent", "high", "medium", "low">>
PrioritySet == {Priorities[i] : i \in 1..Len(Priorities)}
Statuses == {"todo", "progress", "completed"}

NoId == "<null>"                \* `over` null / no drag in progress
NullTask == [null |-> TRUE]     \* the null of Task | null

\* ids generateId can return: Math.random() may repeat a value
GenIds == {"a", "b"}
\* ids a caller can pass to the store handlers
AllIds == {"1", "2", "3"} \cup GenIds

ImageRefs == {"img1"}

\* Strings the model takes apart are sequences of one-character strings.
Whitespace == {" "}

\* the letters that have an upper case and a lower case, position by position
UpperCase == <<"A", "C", "D", "E", "J", "M", "N", "O", "S">>
LowerCase == <<"a", "c", "d", "e", "j", "m", "n", "o", "s">>

NoDate == -1        \* dateFilter undefined
TicksPerDay == 2    \* instants per calendar day

\* what the filter inputs can be set to: the search box, the status select,
\* a day picked in the calendar (its local midnight)
SearchQueries == { << >>, <<"d">>, <<"M", "c">>, <<"u", "d">> }
StatusFilters == {"all"} \cup Statuses
CalendarDays == {14, 18}

-----------------------------------------------------------------------------
(* Sample data: names and owners abbreviated to their initials.  Instants  *)
(* (createdAt, updatedAt, the clock) count half days, so that two instants *)
(* of one calendar day differ; the dates of the form count days.           *)

initialTasks ==
    << [id |-> "1", name |-> <<"D", "s", "c">>, assignedTo |-> <<"S", "J">>,
        startDate |-> 15, endDate |-> 25, priority |-> "high",
        status |-> "todo", images |-> << >>, description |-> "components",
        createdAt |-> 10, updatedAt |-> 10],
       [id |-> "2", name |-> <<"A", "i">>, assignedTo |-> <<"M", "C">>,
        startDate |-> 18, endDate |-> 30, priority |-> "urgent",
        status |-> "todo", images |-> << >>, description |-> "apis",
        createdAt |-> 14, updatedAt |-> 14],
       [id |-> "3", name |-> <<"D", "u">>, assignedTo |-> <<"E", "D">>,
        startDate |-> 20, endDate |-> 36, priority |-> "low",
        status |-> "todo", images |-> << >>, description |-> "docs",
        createdAt |-> 19, updatedAt |-> 19] >>

-----------------------------------------------------------------------------
(* Array helpers *)

\* Array.prototype.findIndex on ids, 1-based; 0 when nothing matches
RECURSIVE FindFrom(_, _, _)
FindFrom(ts, id, i) ==
    IF i > Len(ts) THEN 0
    ELSE IF ts[i].id = id THEN i
    ELSE FindFrom(ts, id, i + 1)

FindIndex(ts, id) == FindFrom(ts, id, 1)

HasId(ts, id) == FindIndex(ts, id) # 0

\* Array.prototype.find: the first task with the id, or null
Find(ts, id) == IF HasId(ts, id) THEN ts[FindIndex(ts, id)] ELSE NullTask

IdsOf(ts) == {ts[i].id : i \in 1..Len(ts)}

WithPriority(ts, p) == SelectSeq(ts, LAMBDA t : t.priority = p)
WithoutPriority(ts, p) == SelectSeq(ts, LAMBDA t : t.priority # p)
WithoutId(ts, id) == SelectSeq(ts, LAMBDA t : t.id # id)

\* arrayMove of @dnd-kit/sortable on 0-based indices:
\*   newArray.splice(to < 0 ? newArray.length + to : to, 0, newArray.splice(from, 1)[0])
ArrayMove(arr, from, to) ==
    LET len  == Len(arr)
        f    == IF from < 0 THEN (IF len + from < 0 THEN 0 ELSE len + from) ELSE from
        t0   == IF to < 0 THEN len + to ELSE to
        item == arr[f + 1]
        rest == SubSeq(arr, 1, f) \o SubSeq(arr, f + 2, len)
        t    == IF t0 < 0 THEN 0 ELSE IF t0 > Len(rest) THEN Len(rest) ELSE t0
    IN  SubSeq(rest, 1, t) \o <<item>> \o SubSeq(rest, t + 1, Len(rest))

-----------------------------------------------------------------------------
(* String and date helpers *)

RECURSIVE TrimStart(_)
TrimStart(s) ==
    IF s = << >> THEN s
    ELSE IF Head(s) \in Whitespace THEN TrimStart(Tail(s))
    ELSE s

RECURSIVE TrimEnd(_)
TrimEnd(s) ==
    IF s = << >> THEN s
    ELSE IF s[Len(s)] \in Whitespace THEN TrimEnd(SubSeq(s, 1, Len(s) - 1))
    ELSE s

\* String.prototype.trim
Trim(s) == TrimEnd(TrimStart(s))

\* new Date(a) > new Date(b) on date-input values: 0 stands for '', which
\* parses to an Invalid Date, and every comparison with NaN is false
DateAfter(a, b) == a # 0 /\ b # 0 /\ a > b

-----------------------------------------------------------------------------
(* Derived views: filteredTasks and groupedTasks *)

\* the lower case of every letter that has one
LowerOf ==
    [c \in {UpperCase[k] : k \in 1..Len(UpperCase)} |->
        LowerCase[CHOOSE k \in 1..Len(UpperCase) : UpperCase[k] = c]]

\* String.prototype.toLowerCase, letter by letter
ToLowerCase(s) ==
    [i \in 1..Len(s) |-> IF s[i] \in DOMAIN LowerOf THEN LowerOf[s[i]] ELSE s[i]]

\* String.prototype.includes: the search string occurs at some position
Includes(s, q) ==
    \E pos \in 0..(Len(s) - Len(q)) : SubSeq(s, pos + 1, pos + Len(q)) = q

\* Date.prototype.toDateString: the calendar day of an instant
ToDateString(t) == t \div TicksPerDay

\* matchesSearch without the assignedTo alternative
matchesSearch_NameOnly(task, q) ==
    Includes(ToLowerCase(task.name), ToLowerCase(q))

matchesSearch(task, q) ==
    \/ Includes(ToLowerCase(task.name), ToLowerCase(q))
    \/ Includes(ToLowerCase(task.assignedTo), ToLowerCase(q))

matchesStatus(task, sf) == sf = "all" \/ task.status = sf

matchesDate(task, df) ==
    df = NoDate \/ ToDateString(task.createdAt) = ToDateString(df)

\* tasks.filter(task => matchesSearch && matchesStatus && matchesDate)
filteredTasks(ts, q, sf, df) ==
    SelectSeq(ts, LAMBDA task :
        matchesSearch(task, q) /\ matchesStatus(task, sf) /\ matchesDate(task, df))

\* groupedTasks with the filter of the bucket "medium" testing for "low"
groupedTasks_MediumTestsLow(ft) ==
    [p \in PrioritySet |->
        SelectSeq(ft, LAMBDA task : task.priority = IF p = "medium" THEN "low" ELSE p)]

\* the four buckets handed to the columns
groupedTasks(ft) ==
    [p \in PrioritySet |-> SelectSeq(ft, LAMBDA task : task.priority = p)]

-----------------------------------------------------------------------------
(* Store updates: the functions handed to setTasks *)

\* handleDragOver: prev.map(task => task.id === activeId
\*     ? {...task, priority: newPriority, updatedAt: now} : task)
SetPriority(prev, id, p, t) ==
    [i \in 1..Len(prev) |->
        IF prev[i].id = id
        THEN [prev[i] EXCEPT !.priority = p, !.updatedAt = t]
        ELSE prev[i]]

\* handleDragEnd: does the handler, reading the collection `ts`, reach its
\* setTasks call (both tasks found, same priority, different indices)
Reorders(ts, activeId, overId) ==
    LET a == Find(ts, activeId)
        o == Find(ts, overId)
    IN  /\ a # NullTask
        /\ o # NullTask
        /\ a.priority = o.priority
        /\ FindIndex(WithPriority(ts, a.priority), activeId)
             # FindIndex(WithPriority(ts, a.priority), overId)

\* handleDragEnd: the value it hands to setTasks, [...otherTasks, ...reorderedTasks]
Reordered(ts, activeId, overId) ==
    LET p             == Find(ts, activeId).priority
        priorityTasks == WithPriority(ts, p)
        activeIndex   == FindIndex(priorityTasks, activeId) - 1
        overIndex     == FindIndex(priorityTasks, overId) - 1
        reorderedTasks == ArrayMove(priorityTasks, activeIndex, overIndex)
        otherTasks    == WithoutPriority(ts, p)
    IN  otherTasks \o reorderedTasks

\* handleDeleteTask: prev.filter(t => t.id !== taskId)
DeleteTask(prev, id) == WithoutId(prev, id)

\* SetStatus with the updatedAt of every task refreshed
SetStatus_RefreshesAll(prev, id, s, t) ==
    [i \in 1..Len(prev) |->
        IF prev[i].id = id
        THEN [prev[i] EXCEPT !.status = s, !.updatedAt = t]
        ELSE [prev[i] EXCEPT !.updatedAt = t]]

\* handleStatusUpdate: prev.map(t => t.id === taskId
\*     ? {...t, status: newStatus, updatedAt: now} : t)
SetStatus(prev, id, s, t) ==
    [i \in 1..Len(prev) |->
        IF prev[i].id = id
        THEN [prev[i] EXCEPT !.status = s, !.updatedAt = t]
        ELSE prev[i]]

\* UpdateTask with the status reset as on create: {...task, ...taskData, status: 'todo', ...}
UpdateTask_ResetsStatus(prev, id, data, imgs, t) ==
    [i \in 1..Len(prev) |->
        IF prev[i].id = id
        THEN [prev[i] EXCEPT !.name = data.name,
                             !.assignedTo = data.assignedTo,
                             !.startDate = data.startDate,
                             !.endDate = data.endDate,
                             !.priority = data.priority,
                             !.description = data.description,
                             !.status = "todo",
                             !.images = imgs,
                             !.updatedAt = t]
        ELSE prev[i]]

\* handleSaveTask, edit branch: {...task, ...taskData, images, updatedAt}
UpdateTask(prev, id, data, imgs, t) ==
    [i \in 1..Len(prev) |->
        IF prev[i].id = id
        THEN [prev[i] EXCEPT !.name = data.name,
                             !.assignedTo = data.assignedTo,
                             !.startDate = data.startDate,
                             !.endDate = data.endDate,
                             !.priority = data.priority,
                             !.description = data.description,
                             !.images = imgs,
                             !.updatedAt = t]
        ELSE prev[i]]

\* handleSaveTask, create branch: the new task
NewTask(id, data, imgs, t) ==
    [id |-> id, name |-> data.name, assignedTo |-> data.assignedTo,
     startDate |-> data.startDate, endDate |-> data.endDate,
     priority |-> data.priority, status |-> "todo", images |-> imgs,
     description |-> data.description, createdAt |-> t, updatedAt |-> t]

\* CreateTask with the new task put first: [newTask, ...prev]
CreateTask_Prepends(prev, id, data, imgs, t) == <<NewTask(id, data, imgs, t)>> \o prev

\* handleSaveTask, create branch: [...prev, newTask]
CreateTask(prev, id, data, imgs, t) == Append(prev, NewTask(id, data, imgs, t))

-----------------------------------------------------------------------------
(* TaskModal *)

\* the form the useEffect seeds from its `task` prop
SeedForm(task, dp) ==
    IF task # NullTask
    THEN [name |-> task.name, assignedTo |-> task.assignedTo,
          startDate |-> task.startDate, endDate |-> task.endDate,
          priority |-> task.priority, description |-> task.description]
    ELSE [name |-> << >>, assignedTo |-> << >>, startDate |-> 0, endDate |-> 0,
          priority |-> dp, description |-> ""]

SeedImages(task) == IF task # NullTask THEN task.images ELSE << >>

\* useEffect(..., [task, defaultPriority, isOpen]): the effect of the render
\* that follows a step runs when one of its dependencies changed
ModalEffect ==
    IF <<editingTask', defaultPriority', isModalOpen'>>
         # <<editingTask, defaultPriority, isModalOpen>>
    THEN /\ formData' = SeedForm(editingTask', defaultPriority')
         /\ images' = SeedImages(editingTask')
    ELSE UNCHANGED <<formData, images>>

\* the form passes the browser's check of its `required` inputs
RequiredFilled ==
    /\ formData.name # << >>
    /\ formData.assignedTo # << >>
    /\ formData.startDate # 0
    /\ formData.endDate # 0

\* InvalidDates with the operands exchanged
InvalidDates_Reversed == DateAfter(formData.endDate, formData.startDate)

\* handleSubmit's two checks
MissingInformation == Trim(formData.name) = << >> \/ Trim(formData.assignedTo) = << >>
InvalidDates == DateAfter(formData.startDate, formData.endDate)

\* drafts a user types into the form
Drafts ==
    LET ok == [name |-> <<"N">>, assignedTo |-> <<"O">>, startDate |-> 1,
               endDate |-> 2, priority |-> "high", description |-> "d"]
    IN  { ok,
          [ok EXCEPT !.name = <<" ">>],
          [ok EXCEPT !.assignedTo = <<" ", " ">>],
          [ok EXCEPT !.startDate = 3],
          [ok EXCEPT !.name = <<" ", "N", " ">>, !.priority = "low",
                     !.startDate = 2, !.description = ""] }

-----------------------------------------------------------------------------
(* Initial state: TaskManager and TaskModal as constructed *)

Init ==
    /\ tasks = initialTasks
    /\ rtasks = initialTasks
    /\ activeTask = NullTask
    /\ dragId = NoId
    /\ isModalOpen = FALSE
    /\ editingTask = NullTask
    /\ defaultPriority = "medium"
    /\ formData = SeedForm(NullTask, "medium")
    /\ images = << >>
    /\ pendingReads = {}
    /\ closedReads = {}
    /\ searchQuery = << >>
    /\ statusFilter = "all"
    /\ dateFilter = NoDate
    /\ toast = "none"
    /\ now = 20
    /\ nEvents = 0

\* one more user event, of at most `max`
Event(max) == nEvents < max /\ nEvents' = nEvents + 1

\* React renders before the next event when the update came from a discrete
\* event (click, submit, pointer up): the handlers close over the new state
Flush == rtasks' = tasks'

\* the cards on the board: the filtered tasks of the last render
Cards == filteredTasks(rtasks, searchQuery, statusFilter, dateFilter)

\* what the pointer can be over: nothing, a column, a rendered card
OverTargets == {NoId} \cup PrioritySet \cup IdsOf(Cards)

-----------------------------------------------------------------------------
(* Filter inputs *)

SetSearchQuery(q) ==
    /\ searchQuery' = q
    /\ UNCHANGED <<boardVars, modalVars, readVars, statusFilter, dateFilter, toast, now>>

SetStatusFilter(sf) ==
    /\ statusFilter' = sf
    /\ UNCHANGED <<boardVars, modalVars, readVars, searchQuery, dateFilter, toast, now>>

SetDateFilter(df) ==
    /\ dateFilter' = df
    /\ UNCHANGED <<boardVars, modalVars, readVars, searchQuery, statusFilter, toast, now>>

-----------------------------------------------------------------------------
(* Drag handlers *)

HandleDragStart(id) ==
    /\ dragId = NoId
    /\ dragId' = id
    /\ id \in IdsOf(Cards)
    /\ activeTask' = Find(rtasks, id)
    /\ UNCHANGED <<tasks, rtasks, modalVars, readVars, viewVars, toast, now>>

\* handleDragOver calls setTasks
DragOverCommits(ts, activeId, overId) ==
    /\ overId # NoId
    /\ Find(ts, activeId) # NullTask
    /\ overId \in PrioritySet
    /\ Find(ts, activeId).priority # overId

\* The update is queued from dnd-kit's drag-over callback, not from a discrete
\* React event: the render that shows it is a later step (Render), and a
\* pointer up can be handled before it.
HandleDragOver(over) ==
    /\ dragId # NoId
    /\ over \in OverTargets
    /\ tasks' = IF DragOverCommits(rtasks, dragId, over)
                THEN SetPriority(tasks, dragId, over, now)
                ELSE tasks
    /\ UNCHANGED <<rtasks, activeTask, dragId, modalVars, readVars, viewVars, toast, now>>

\* HandleDragEnd with the marker cleared after the `if (!over) return`
HandleDragEnd_ClearsAfterReturn(over) ==
    /\ dragId # NoId
    /\ activeTask' = IF over = NoId THEN activeTask ELSE NullTask
    /\ dragId' = NoId
    /\ over \in OverTargets
    /\ tasks' = IF over # NoId /\ Reorders(rtasks, dragId, over)
                THEN Reordered(rtasks, dragId, over)
                ELSE tasks
    /\ Flush
    /\ UNCHANGED <<modalVars, readVars, viewVars, toast, now>>

HandleDragEnd(over) ==
    /\ dragId # NoId
    /\ activeTask' = NullTask
    /\ dragId' = NoId
    /\ over \in OverTargets
    /\ tasks' = IF over # NoId /\ Reorders(rtasks, dragId, over)
                THEN Reordered(rtasks, dragId, over)
                ELSE tasks
    /\ Flush
    /\ UNCHANGED <<modalVars, readVars, viewVars, toast, now>>

\* the render scheduled by handleDragOver's setTasks commits
Render ==
    /\ rtasks # tasks
    /\ rtasks' = tasks
    /\ UNCHANGED <<tasks, activeTask, dragId, modalVars, readVars, viewVars, toast, now, nEvents>>

-----------------------------------------------------------------------------
(* Store handlers *)

HandleAddTask(p) ==
    /\ defaultPriority' = p
    /\ editingTask' = NullTask
    /\ isModalOpen' = TRUE
    /\ ModalEffect
    /\ UNCHANGED <<boardVars, readVars, viewVars, toast, now>>

HandleEditTask(task) ==
    /\ editingTask' = task
    /\ isModalOpen' = TRUE
    /\ UNCHANGED defaultPriority
    /\ ModalEffect
    /\ UNCHANGED <<boardVars, readVars, viewVars, toast, now>>

HandleDeleteTask(taskId) ==
    /\ tasks' = DeleteTask(tasks, taskId)
    /\ Flush
    /\ toast' = "Task Deleted"
    /\ UNCHANGED <<activeTask, dragId, modalVars, readVars, viewVars, now>>

HandleStatusUpdate(taskId, newStatus) ==
    /\ toast' = "Status Updated"
    /\ tasks' = SetStatus(tasks, taskId, newStatus, now)
    /\ Flush
    /\ UNCHANGED <<activeTask, dragId, modalVars, readVars, viewVars, now>>

\* handleSaveTask: the collection after onSave(formData, images)
SaveTask(prev, newId) ==
    IF editingTask # NullTask
    THEN UpdateTask(prev, editingTask.id, formData, images, now)
    ELSE CreateTask(prev, newId, formData, images, now)

HandleCloseModal ==
    /\ isModalOpen
    /\ isModalOpen' = FALSE
    /\ editingTask' = NullTask
    /\ UNCHANGED defaultPriority
    /\ ModalEffect
    /\ closedReads' = pendingReads
    /\ UNCHANGED <<boardVars, pendingReads, viewVars, toast, now>>

-----------------------------------------------------------------------------
(* TaskModal handlers *)

\* One step types a whole draft: handleInputChange once per field.
HandleInputChange(draft) ==
    /\ isModalOpen
    /\ formData' = draft
    /\ UNCHANGED <<boardVars, isModalOpen, editingTask, defaultPriority, images,
                   readVars, viewVars, toast, now>>

\* every chosen file starts a FileReader read
HandleImageUpload(files) ==
    /\ isModalOpen
    /\ files # {}
    /\ files \cap pendingReads = {}
    /\ pendingReads' = pendingReads \cup files
    /\ UNCHANGED <<boardVars, modalVars, closedReads, viewVars, toast, now>>

\* reader.onload: setImages(prev => [...prev, result]).  `images` is the list
\* as the form shows it and as handleSubmit's closure holds it: the step
\* stands for the delivery of the result together with the render of it.
ReaderOnLoad(img) ==
    /\ img \in pendingReads
    /\ pendingReads' = pendingReads \ {img}
    /\ closedReads' = closedReads \ {img}
    /\ images' = Append(images, img)
    /\ UNCHANGED <<boardVars, isModalOpen, editingTask, defaultPriority, formData,
                   viewVars, toast, now, nEvents>>

RemoveImage(index) ==
    /\ isModalOpen
    /\ index \in 1..Len(images)
    /\ images' = SubSeq(images, 1, index - 1) \o SubSeq(images, index + 1, Len(images))
    /\ UNCHANGED <<boardVars, isModalOpen, editingTask, defaultPriority, formData,
                   readVars, viewVars, toast, now>>

\* handleSubmit rejects the draft: a toast, and nothing else changes
SubmitRejected ==
    /\ MissingInformation \/ InvalidDates
    /\ toast' = IF MissingInformation THEN "Missing Information" ELSE "Invalid Dates"
    /\ UNCHANGED <<boardVars, modalVars, readVars, viewVars, now>>

\* handleSubmit saves: onSave, the success toast, onClose
SubmitSaved ==
    /\ ~MissingInformation
    /\ ~InvalidDates
    /\ \E newId \in GenIds : tasks' = SaveTask(tasks, newId)
    /\ Flush
    /\ toast' = IF editingTask # NullTask THEN "Task Updated" ELSE "Task Created"
    /\ isModalOpen' = FALSE
    /\ editingTask' = NullTask
    /\ UNCHANGED defaultPriority
    /\ ModalEffect
    /\ closedReads' = pendingReads
    /\ UNCHANGED <<activeTask, dragId, pendingReads, viewVars, now>>

HandleSubmit ==
    /\ isModalOpen
    /\ RequiredFilled
    /\ (SubmitRejected \/ SubmitSaved)

-----------------------------------------------------------------------------
(* The clock *)

Tick ==
    /\ now < 20 + MaxTicks
    /\ now' = now + 1
    /\ UNCHANGED <<boardVars, modalVars, readVars, viewVars, toast, nEvents>>

-----------------------------------------------------------------------------

\* A behaviour of the board and the form with every task shown (the filter
\* inputs untouched): any handler, at most MaxEvents user events
Next ==
    \/ Event(MaxEvents) /\ \E id \in AllIds : HandleDragStart(id)
    \/ Event(MaxEvents) /\ \E over \in OverTargets : HandleDragOver(over)
    \/ Event(MaxEvents) /\ \E over \in OverTargets : HandleDragEnd(over)
    \/ Render
    \/ Event(MaxEvents) /\ \E p \in PrioritySet : HandleAddTask(p)
    \/ Event(MaxEvents) /\ \E i \in 1..Len(rtasks) : HandleEditTask(rtasks[i])
    \/ Event(MaxEvents) /\ \E id \in AllIds : HandleDeleteTask(id)
    \/ Event(MaxEvents) /\ \E id \in AllIds, s \in Statuses : HandleStatusUpdate(id, s)
    \/ Event(MaxEvents) /\ HandleCloseModal
    \/ Event(MaxEvents) /\ \E d \in Drafts : HandleInputChange(d)
    \/ Event(MaxEvents) /\ \E files \in SUBSET ImageRefs : HandleImageUpload(files)
    \/ \E img \in ImageRefs : ReaderOnLoad(img)
    \/ Event(MaxEvents) /\ \E i \in 1..Len(images) : RemoveImage(i)
    \/ Event(MaxEvents) /\ HandleSubmit
    \/ Tick

Spec == Init /\ [][Next]_vars

\* Longer behaviours of the form and the store handlers it reaches: the drag
\* handlers and the status menu are left out, so that two creates fit
NextForm ==
    \/ Event(MaxFormEvents) /\ \E p \in PrioritySet : HandleAddTask(p)
    \/ Event(MaxFormEvents) /\ \E i \in 1..Len(rtasks) : HandleEditTask(rtasks[i])
    \/ Event(MaxFormEvents) /\ \E id \in AllIds : HandleDeleteTask(id)
    \/ Event(MaxFormEvents) /\ HandleCloseModal
    \/ Event(MaxFormEvents) /\ \E d \in Drafts : HandleInputChange(d)
    \/ Event(MaxFormEvents) /\ \E files \in SUBSET ImageRefs : HandleImageUpload(files)
    \/ \E img \in ImageRefs : ReaderOnLoad(img)
    \/ Event(MaxFormEvents) /\ \E i \in 1..Len(images) : RemoveImage(i)
    \/ Event(MaxFormEvents) /\ HandleSubmit
    \/ Tick

SpecForm == Init /\ [][NextForm]_vars

\* Behaviours of the board under its filters: the filter inputs, the drag
\* handlers and the status menu of the cards
NextView ==
    \/ Event(MaxViewEvents) /\ \E q \in SearchQueries : SetSearchQuery(q)
    \/ Event(MaxViewEvents) /\ \E sf \in StatusFilters : SetStatusFilter(sf)
    \/ Event(MaxViewEvents) /\ \E df \in CalendarDays \cup {NoDate} : SetDateFilter(df)
    \/ Event(MaxViewEvents) /\ \E id \in AllIds : HandleDragStart(id)
    \/ Event(MaxViewEvents) /\ \E over \in OverTargets : HandleDragOver(over)
    \/ Event(MaxViewEvents) /\ \E over \in OverTargets : HandleDragEnd(over)
    \/ Render
    \/ Event(MaxViewEvents) /\ \E id \in IdsOf(Cards), s \in Statuses : HandleStatusUpdate(id, s)
    \/ Tick

SpecView == Init /\ [][NextView]_vars

-----------------------------------------------------------------------------
(* Vocabulary of the properties *)

\* a reorder step of handleDragEnd: the handler reaches its setTasks call
ReorderStep(over) == HandleDragEnd(over) /\ over # NoId /\ Reorders(rtasks, dragId, over)

\* the priority that step reorders
ReorderedPriority == Find(rtasks, dragId).priority

\* the handlers see the collection as it is: no render is pending
Fresh == rtasks = tasks

IdSeq(ts) == [i \in 1..Len(ts) |-> ts[i].id]

\* how many tasks of priority p carry the id
IdCount(ts, p, id) == Cardinality({i \in 1..Len(ts) : ts[i].id = id /\ ts[i].priority = p})

\* every value `over` can take, whatever the board shows
AnyTarget == {NoId} \cup PrioritySet \cup AllIds

\* a draft the form is meant to accept
ValidDraft(d) ==
    /\ Trim(d.name) # << >>
    /\ Trim(d.assignedTo) # << >>
    /\ ~(d.startDate > d.endDate)

-----------------------------------------------------------------------------
(* C1 *)

\* C1: a reorder of priority P by dragEnd leaves every task of another
\* priority at the index it had in the collection before the reorder.
\* (Stated for the case where no render is pending.)
C1_OtherTasksKeepIndex ==
    [][\A over \in OverTargets :
        (ReorderStep(over) /\ Fresh) =>
            /\ Len(tasks') = Len(tasks)
            /\ \A i \in 1..Len(tasks) :
                tasks[i].priority # ReorderedPriority => tasks'[i] = tasks[i]]_vars

-----------------------------------------------------------------------------
(* C2 *)

\* C2: a reorder of priority P by dragEnd keeps the multiset of the ids of
\* the tasks of priority P, and keeps the tasks of other priorities in
\* their relative order.
C2_ReorderKeepsIdsAndOthers ==
    [][\A over \in OverTargets :
        ReorderStep(over) =>
            /\ \A id \in AllIds :
                IdCount(tasks', ReorderedPriority, id) = IdCount(tasks, ReorderedPriority, id)
            /\ IdSeq(WithoutPriority(tasks', ReorderedPriority))
                 = IdSeq(WithoutPriority(tasks, ReorderedPriority))]_vars

-----------------------------------------------------------------------------
(* C3 *)

\* dragOver has given the dragged task a priority other than the one it was
\* picked up with (activeTask keeps the task as it was at dragStart)
DragOverCommitted ==
    /\ activeTask # NullTask
    /\ HasId(tasks, dragId)
    /\ Find(tasks, dragId).priority # activeTask.priority

\* C3: once dragOver has committed priority P to the dragged task, a dragEnd
\* onto another task of priority P leaves the dragged task with priority P
\* and applies the move among the tasks of priority P as they are after the
\* dragOver commit, whether or not a render came in between.
C3_DragEndReadsCommittedState ==
    [][\A over \in OverTargets :
        ( /\ HandleDragEnd(over)
          /\ DragOverCommitted
          /\ over # dragId
          /\ HasId(tasks, over)
          /\ Find(tasks, over).priority = Find(tasks, dragId).priority )
        => LET P  == Find(tasks, dragId).priority
               pt == WithPriority(tasks, P)
           IN  /\ Find(tasks', dragId) # NullTask
               /\ Find(tasks', dragId).priority = P
               /\ WithPriority(tasks', P)
                    = ArrayMove(pt, FindIndex(pt, dragId) - 1, FindIndex(pt, over) - 1)]_vars

-----------------------------------------------------------------------------
(* C4 *)

\* C4: no two tasks of the collection have the same id.
C4_UniqueIds ==
    \A i, j \in 1..Len(tasks) : i # j => tasks[i].id # tasks[j].id

-----------------------------------------------------------------------------
(* C5 *)

\* a submit of the form with no task bound to it (create)
CreateSubmit == HandleSubmit /\ editingTask = NullTask

\* a submit of the form with a task bound to it (edit)
EditSubmit == HandleSubmit /\ editingTask # NullTask

\* C5: committing a valid draft with no task bound appends exactly one task
\* to the collection; that task has status todo, createdAt equal to
\* updatedAt, the fields of the draft and the draft's image list, and every
\* task that was there before is unchanged.
C5_CreateAppendsOneTask ==
    [][(CreateSubmit /\ ValidDraft(formData)) =>
        /\ Len(tasks') = Len(tasks) + 1
        /\ SubSeq(tasks', 1, Len(tasks)) = tasks
        /\ LET t == tasks'[Len(tasks')]
           IN  /\ t.status = "todo"
               /\ t.createdAt = t.updatedAt
               /\ t.name = formData.name
               /\ t.assignedTo = formData.assignedTo
               /\ t.startDate = formData.startDate
               /\ t.endDate = formData.endDate
               /\ t.priority = formData.priority
               /\ t.description = formData.description
               /\ t.images = images]_vars

\* a task created from a draft with an image sits at the end of the sample tasks
C5_Witness ==
    /\ Len(tasks) = Len(initialTasks) + 1
    /\ SubSeq(tasks, 1, Len(initialTasks)) = initialTasks
    /\ tasks[Len(tasks)].id \in GenIds
    /\ tasks[Len(tasks)].status = "todo"
    /\ tasks[Len(tasks)].images # << >>
    /\ toast = "Task Created"
    /\ ~isModalOpen

-----------------------------------------------------------------------------
(* C6 *)

\* C6: a submit whose draft has a name or an owner that trims to empty, or a
\* start date after its end date, changes neither the collection nor the
\* form, leaves the modal open with the same task bound, and shows one of
\* the two rejection toasts; on create and on edit alike.
C6_InvalidDraftRejected ==
    [][(HandleSubmit /\ ~ValidDraft(formData)) =>
        /\ tasks' = tasks
        /\ isModalOpen'
        /\ editingTask' = editingTask
        /\ formData' = formData
        /\ images' = images
        /\ toast' \in {"Missing Information", "Invalid Dates"}]_vars

\* an edit whose draft has its dates in the wrong order was just rejected
C6_Witness ==
    /\ isModalOpen
    /\ editingTask # NullTask
    /\ formData.startDate > formData.endDate
    /\ toast = "Invalid Dates"
    /\ tasks = initialTasks

-----------------------------------------------------------------------------
(* C7 *)

\* C7: an edit commit whose bound id is no longer in the collection leaves
\* the collection unchanged and is reported as a failure, not as a success.
C7_UpdateOfAbsentIdFails ==
    [][(EditSubmit /\ ValidDraft(formData) /\ ~HasId(tasks, editingTask.id)) =>
        /\ tasks' = tasks
        /\ toast' # "Task Updated"]_vars

-----------------------------------------------------------------------------
(* C8 *)

\* C8: deleting an id that is not in the collection leaves the collection
\* unchanged and is not reported as a successful deletion.
C8_DeleteOfAbsentIdFails ==
    [][\A id \in AllIds :
        (HandleDeleteTask(id) /\ ~HasId(tasks, id)) =>
            /\ tasks' = tasks
            /\ toast' # "Task Deleted"]_vars

-----------------------------------------------------------------------------
(* C9 *)

\* C9: an edit commit on a task of the collection keeps the length and the
\* order of the collection; the task with the bound id keeps its id,
\* createdAt and status, takes the draft's fields and image list and the
\* current instant as updatedAt; every task with another id is unchanged.
C9_EditCommitMergesDraft ==
    [][(EditSubmit /\ ValidDraft(formData) /\ HasId(tasks, editingTask.id)) =>
        /\ Len(tasks') = Len(tasks)
        /\ \A i \in 1..Len(tasks) :
            IF tasks[i].id = editingTask.id
            THEN tasks'[i] = [id |-> tasks[i].id,
                              createdAt |-> tasks[i].createdAt,
                              status |-> tasks[i].status,
                              name |-> formData.name,
                              assignedTo |-> formData.assignedTo,
                              startDate |-> formData.startDate,
                              endDate |-> formData.endDate,
                              priority |-> formData.priority,
                              description |-> formData.description,
                              images |-> images,
                              updatedAt |-> now]
            ELSE tasks'[i] = tasks[i]]_vars

\* sample task 1, moved to "progress", then edited with the draft named N
C9_Witness ==
    /\ toast = "Task Updated"
    /\ Len(tasks) = Len(initialTasks)
    /\ tasks[1].id = "1"
    /\ tasks[1].name = <<"N">>
    /\ tasks[1].status = "progress"
    /\ tasks[1].createdAt = initialTasks[1].createdAt
    /\ tasks[1].updatedAt = now
    /\ tasks[2] = initialTasks[2]
    /\ tasks[3] = initialTasks[3]

-----------------------------------------------------------------------------
(* C10 *)

\* C10: edit commit, setStatus, the priority reassignment of dragOver and
\* the reorder of dragEnd each set updatedAt of the task they change to the
\* current instant.
C10_MutationsRefreshUpdatedAt ==
    [][/\ (EditSubmit /\ ValidDraft(formData)) =>
            \A i \in 1..Len(tasks) :
                tasks[i].id = editingTask.id => tasks'[i].updatedAt = now
       /\ \A id \in AllIds, s \in Statuses :
            HandleStatusUpdate(id, s) =>
                \A i \in 1..Len(tasks) : tasks[i].id = id => tasks'[i].updatedAt = now
       /\ \A over \in OverTargets :
            (HandleDragOver(over) /\ tasks' # tasks) =>
                Find(tasks', dragId).updatedAt = now
       /\ \A over \in OverTargets :
            (ReorderStep(over) /\ Fresh) =>
                Find(tasks', dragId).updatedAt = now]_vars

-----------------------------------------------------------------------------
(* C11 *)

\* C11: the clock never going back, every task has updatedAt >= createdAt,
\* and no step changes the createdAt of a task that stays in the collection
\* or lowers its updatedAt.
C11_TimestampsMonotonic ==
    [][/\ \A i \in 1..Len(tasks') : tasks'[i].updatedAt >= tasks'[i].createdAt
       /\ \A id \in AllIds :
            (HasId(tasks, id) /\ HasId(tasks', id)) =>
                /\ Find(tasks', id).createdAt = Find(tasks, id).createdAt
                /\ Find(tasks', id).updatedAt >= Find(tasks, id).updatedAt]_vars

-----------------------------------------------------------------------------
(* C12 *)

\* C12: a dragOver onto a column other than the one the dragged task is in
\* gives the task that priority and the current instant as updatedAt in the
\* same step, and changes nothing else: no other field of the task, no
\* other task, no task's index.
C12_DragOverSetsPriority ==
    [][\A over \in PrioritySet :
        ( /\ HandleDragOver(over)
          /\ HasId(tasks, dragId)
          /\ Find(tasks, dragId).priority # over )
        => /\ Len(tasks') = Len(tasks)
           /\ \A i \in 1..Len(tasks) :
                IF tasks[i].id = dragId
                THEN tasks'[i] = [tasks[i] EXCEPT !.priority = over, !.updatedAt = now]
                ELSE tasks'[i] = tasks[i]]_vars

-----------------------------------------------------------------------------
(* C13 *)

\* C13: dragStart sets the active-task marker to the task of the collection
\* that has the dragged id and leaves the collection as it is; every dragEnd
\* leaves the marker null, whatever its target (nothing, a column, a task of
\* another priority, the dragged task itself) and whether or not the dragged
\* id is still in the collection.
C13_MarkerSetAndCleared ==
    [][/\ \A id \in AllIds :
            HandleDragStart(id) =>
                /\ activeTask' # NullTask
                /\ activeTask' = Find(tasks, id)
                /\ tasks' = tasks
       /\ \A over \in AnyTarget :
            HandleDragEnd(over) => activeTask' = NullTask]_vars

\* a drag that took task 1 to the column "urgent" has ended: the marker is null
C13_Witness ==
    /\ activeTask = NullTask
    /\ dragId = NoId
    /\ HasId(tasks, "1")
    /\ Find(tasks, "1").priority = "urgent"

-----------------------------------------------------------------------------
(* C14 *)

\* C14: the collection is the same after a dragOver whose target is nothing,
\* a task, or the column the dragged task is in, and after a dragEnd whose
\* target is nothing, a column, the dragged task itself, or a task whose
\* priority is not the dragged task's.
C14_NoOpDragsKeepCollection ==
    [][/\ \A over \in AnyTarget :
            ( /\ HandleDragOver(over)
              /\ \/ over = NoId
                 \/ over \notin PrioritySet
                 \/ HasId(tasks, dragId) /\ Find(tasks, dragId).priority = over )
            => tasks' = tasks
       /\ \A over \in AnyTarget :
            ( /\ HandleDragEnd(over)
              /\ \/ over = NoId
                 \/ over \in PrioritySet
                 \/ over = dragId
                 \/ /\ HasId(tasks, over)
                    /\ HasId(tasks, dragId)
                    /\ Find(tasks, over).priority # Find(tasks, dragId).priority )
            => tasks' = tasks]_vars

-----------------------------------------------------------------------------
(* C15 *)

\* the filtered result of the collection under the filter inputs as they are
View == filteredTasks(tasks, searchQuery, statusFilter, dateFilter)

\* two characters that are the same letter, whatever their case
SameLetter(a, b) ==
    \/ a = b
    \/ \E k \in 1..Len(UpperCase) : {a, b} = {UpperCase[k], LowerCase[k]}

\* q occurs in s when case is ignored
ContainsIgnoringCase(s, q) ==
    \E pos \in 0..(Len(s) - Len(q)) :
        \A k \in 1..Len(q) : SameLetter(s[pos + k], q[k])

\* the instants t and u lie in the same calendar day
SameCalendarDay(t, u) ==
    \E d \in 0..t :
        /\ d * TicksPerDay <= t /\ t < (d + 1) * TicksPerDay
        /\ d * TicksPerDay <= u /\ u < (d + 1) * TicksPerDay

\* ts is `of` with some of its elements left out, the others in their order
RECURSIVE IsSubsequence(_, _)
IsSubsequence(ts, of) ==
    IF ts = << >> THEN TRUE
    ELSE IF of = << >> THEN FALSE
    ELSE IF Head(ts) = Head(of) THEN IsSubsequence(Tail(ts), Tail(of))
    ELSE IsSubsequence(ts, Tail(of))

\* C15: a task of the collection is in the filtered result exactly when its
\* name or its owner contains the search query (case ignored), the status
\* filter is "all" or the task's status, and no date filter is set or the
\* task was created on the filter's calendar day; the filtered result is a
\* subsequence of the collection.
C15_FilterIsConjunction ==
    /\ \A i \in 1..Len(tasks) :
        (\E j \in 1..Len(View) : View[j] = tasks[i])
        <=> /\ \/ ContainsIgnoringCase(tasks[i].name, searchQuery)
               \/ ContainsIgnoringCase(tasks[i].assignedTo, searchQuery)
            /\ statusFilter = "all" \/ statusFilter = tasks[i].status
            /\ dateFilter = NoDate \/ SameCalendarDay(tasks[i].createdAt, dateFilter)
    /\ IsSubsequence(View, tasks)

\* the three filters set at once: only task 2, found by its owner "MC" under
\* the query "Mc", in progress and created on the day picked, is shown
C15_Witness ==
    /\ searchQuery = <<"M", "c">>
    /\ statusFilter = "progress"
    /\ dateFilter # NoDate
    /\ Len(tasks) = 3
    /\ Len(View) = 1
    /\ View[1].id = "2"

-----------------------------------------------------------------------------
(* C16 *)

\* the buckets of the filtered result
Buckets == groupedTasks(View)

\* how many times the task t is listed in the sequence ts
Occurrences(ts, t) == Cardinality({k \in 1..Len(ts) : ts[k] = t})

\* the buckets partition the sequence `view` in its order
Partitions(buckets, view) ==
    /\ DOMAIN buckets = PrioritySet
    /\ \A j \in 1..Len(view), p \in PrioritySet :
        Occurrences(buckets[p], view[j]) = IF p = view[j].priority THEN 1 ELSE 0
    /\ \A p \in PrioritySet :
        /\ \A k \in 1..Len(buckets[p]) : \E j \in 1..Len(view) : view[j] = buckets[p][k]
        /\ IsSubsequence(buckets[p], view)

\* C16: every task of the filtered result is in exactly one bucket, the one
\* of its priority; a bucket holds only tasks of the filtered result, in the
\* order of the filtered result; the render that computes the buckets
\* changes neither the collection nor the filter inputs, and the buckets are
\* the same as long as the collection and the filter inputs are.
\* (before, after: the filtered result on the two sides of a step)
C16_GroupingPartitions ==
    [][\A before \in {View}, after \in {View'} :
        \A bucketsBefore \in {groupedTasks(before)}, bucketsAfter \in {groupedTasks(after)} :
            /\ Partitions(bucketsBefore, before)
            /\ Partitions(bucketsAfter, after)
            /\ Render => (tasks' = tasks /\ viewVars' = viewVars)
            /\ (tasks' = tasks /\ viewVars' = viewVars) => bucketsAfter = bucketsBefore]_vars

\* task 1 was dragged to "low" and the query "d" hides task 2: the bucket
\* "low" lists tasks 1 and 3, the bucket "urgent" is empty
C16_Witness ==
    /\ searchQuery = <<"d">>
    /\ Len(tasks) = 3
    /\ Len(View) = 2
    /\ Len(Buckets["low"]) = 2
    /\ Buckets["low"][1].id = "1"
    /\ Buckets["low"][2].id = "3"
    /\ Buckets["urgent"] = << >>
    /\ Find(tasks, "2").priority = "urgent"

-----------------------------------------------------------------------------
(* C17 *)

\* C17: the result of an image read that was started in a form closed since
\* is not appended to the image list of the form that is open when the read
\* completes.
C17_ClosedReadsDiscarded ==
    [][\A img \in ImageRefs :
        (ReaderOnLoad(img) /\ img \in closedReads /\ isModalOpen) =>
            images' = images]_vars

-----------------------------------------------------------------------------
(* C18 *)

\* C18: a status update of a task of the collection gives that task the new
\* status and changes nothing of it but status and updatedAt; every other
\* task and the order of the collection are as before.
C18_StatusUpdateFrame ==
    [][\A id \in AllIds, s \in Statuses :
        (HandleStatusUpdate(id, s) /\ HasId(tasks, id)) =>
            /\ Len(tasks') = Len(tasks)
            /\ \A i \in 1..Len(tasks) :
                IF tasks[i].id = id
                THEN tasks'[i] = [id |-> tasks[i].id,
                                  name |-> tasks[i].name,
                                  assignedTo |-> tasks[i].assignedTo,
                                  startDate |-> tasks[i].startDate,
                                  endDate |-> tasks[i].endDate,
                                  priority |-> tasks[i].priority,
                                  images |-> tasks[i].images,
                                  description |-> tasks[i].description,
                                  createdAt |-> tasks[i].createdAt,
                                  status |-> s,
                                  updatedAt |-> tasks'[i].updatedAt]
                ELSE tasks'[i] = tasks[i]]_vars

\* task 2 was set to "completed" after the clock advanced; tasks 1 and 3 are
\* the sample tasks, in their places
C18_Witness ==
    /\ toast = "Status Updated"
    /\ Len(tasks) = 3
    /\ tasks[1] = initialTasks[1]
    /\ tasks[2] = [initialTasks[2] EXCEPT !.status = "completed", !.updatedAt = now]
    /\ tasks[2].updatedAt > initialTasks[2].updatedAt
    /\ tasks[3] = initialTasks[3]

-----------------------------------------------------------------------------
(* C19 *)

\* C19: a dragEnd onto another task that has the dragged task's priority P
\* puts the dragged task at the index the target had among all the tasks of
\* priority P of the collection, shown or hidden by the filters, and keeps
\* the other tasks of priority P in their relative order.
C19_ReorderIsArrayMove ==
    [][\A over \in AllIds :
        ( /\ HandleDragEnd(over)
          /\ over # dragId
          /\ HasId(tasks, over)
          /\ HasId(tasks, dragId)
          /\ Find(tasks, over).priority = Find(tasks, dragId).priority )
        => LET P      == Find(tasks, dragId).priority
               before == WithPriority(tasks, P)
               after  == WithPriority(tasks', P)
           IN  /\ FindIndex(after, dragId) = FindIndex(before, over)
               /\ IdSeq(WithoutId(after, dragId)) = IdSeq(WithoutId(before, dragId))]_vars

-----------------------------------------------------------------------------
(* C20 *)

-----------------------------------------------------------------------------
(* C21 *)

\* how many tasks of the collection carry the id
CountOfId(ts, id) == Cardinality({i \in 1..Len(ts) : ts[i].id = id})

\* a submit that creates a task
CreateStep == CreateSubmit /\ ValidDraft(formData)

\* a delete of an id that is in the collection
DeleteStep(id) == HandleDeleteTask(id) /\ HasId(tasks, id)

\* C21: a create adds exactly one id to the ids of the collection; a delete
\* of an id of the collection removes exactly that id and leaves the other
\* tasks as they are, in their order; every other step (the drag handlers,
\* a status update, an edit commit, a filter input, a render) leaves every
\* id in the collection as many times as before.
C21_IdsChangeByCreateAndDelete ==
    [][/\ CreateStep =>
            \E id \in AllIds \ IdsOf(tasks) : IdsOf(tasks') = IdsOf(tasks) \cup {id}
       /\ \A id \in AllIds :
            DeleteStep(id) =>
                /\ IdsOf(tasks') = IdsOf(tasks) \ {id}
                /\ tasks' = SelectSeq(tasks, LAMBDA t : t.id # id)
       /\ (~CreateStep /\ ~(\E id \in AllIds : DeleteStep(id))) =>
            \A id \in AllIds : CountOfId(tasks', id) = CountOfId(tasks, id)]_vars

====
